---- MODULE Spec2Model ----
(***************************************************************************)
(* Model of yamaha-flic-integration.js: a Flic Hub script that turns       *)
(* action messages and Twist updates into HTTP GET requests against the    *)
(* Yamaha Extended Control API of one receiver with two zones, and mirrors *)
(* the volume back into Flic virtual devices.                              *)
(*                                                                         *)
(* Every async function of the script is a coroutine: an action of this    *)
(* model runs one of them from an event (or from the settling of the       *)
(* request it awaits) up to its next await or to its end.                  *)
(*                                                                         *)
(* Time is kept as elapsed times, which is all the script compares: the    *)
(* time since lastPlaybackCommandTime, the time since an invocation read   *)
(* its currentTime, the time since a request was sent. Each saturates at   *)
(* the threshold it is compared with.                                      *)
(*                                                                         *)
(* Units: times are milliseconds. A Twist value (0..1 in the script) and a *)
(* virtual device volume are kept in thousandths, so 0.5 is 500 and        *)
(* (volume / 100) of a volume in percent is volume * 10.                   *)
(***************************************************************************)
EXTENDS Integers, Sequences, FiniteSets, TLC

VARIABLES
    sinceLast,  \* Date.now() - lastPlaybackCommandTime, at most PLAYBACK_COOLDOWN_MS
    curVol,     \* currentVolume (the module-level variable of line 338)
    ranges,     \* YAMAHA_CONFIG.volumeRanges: "default" or "discovered"
    hs,         \* the invocations of the async handlers, by slot
    vd,         \* Flic virtual device volume by virtual device id, -1 = never set
    dev,        \* the receiver: power, volume, mute per zone and netusb playback
    orphans,    \* requests whose promise was rejected by the timer; the HTTP call lives on
                \* (url, state, and slot: the invocation that sent it)
    events,     \* number of events received so far
    faults      \* number of requests that failed so far

vars == <<sinceLast, curVol, ranges, hs, vd, dev, orphans, events, faults>>

----------------------------------------------------------------------------
(* Bounds of the model *)

MaxEvents == 2          \* events received in one behaviour
MaxEarlyEvents == 1     \* events received while the start-up of the script still runs
MaxFaults == 1          \* requests that fail in one behaviour
TickMs == 2500          \* granularity of the clock
MaxLiveEvents == 1      \* events received in one behaviour of SpecLive

(* Program constants *)

PLAYBACK_COOLDOWN_MS == 2500
REQUEST_TIMEOUT_MS == 5000
VOLUME_STEP == 10
MAX_VOLUME == 100
MIN_VOLUME == 0
CENTER == 500               \* 0.5, the center position of the skip device
THRESHOLD == 100            \* 0.1, the movement that makes a playback command
SKIP_CREATE_VOLUME == 50000 \* createVirtualDevice('skip', ..., {volume: 50})

Zones == {"main", "zone2"}
IP == "RECEIVER1_IP_ADDRESS"

\* YAMAHA_CONFIG.speakers
Speakers ==
    << [id |-> "id1main", ip |-> IP, zone |-> "main"],
       [id |-> "id1zone2", ip |-> IP, zone |-> "zone2"] >>

SpeakerIds == {Speakers[i].id : i \in 1..Len(Speakers)}

\* YAMAHA_CONFIG.speakers.find(s => s.id === id): its index, 0 when not found
FindSpeaker(id) ==
    IF \E i \in 1..Len(Speakers) : Speakers[i].id = id
    THEN CHOOSE i \in 1..Len(Speakers) :
            /\ Speakers[i].id = id
            /\ \A j \in 1..(i - 1) : Speakers[j].id # id
    ELSE 0

\* YAMAHA_CONFIG.endpoints[zone][key]: the path, as <<segment, method>>
Endpoint(zone, key) ==
    CASE key = "volume" -> <<zone, "setVolume">>
      [] key = "status" -> <<zone, "getStatus">>
      [] key = "power"  -> <<zone, "setPower">>
      [] key = "mute"   -> <<zone, "setMute">>

NetusbPlayInfo == <<"netusb", "getPlayInfo">>
NetusbSetPlayback == <<"netusb", "setPlayback">>
SystemGetFeatures == <<"system", "getFeatures">>

----------------------------------------------------------------------------
(* Arithmetic of the script *)

Min(a, b) == IF a < b THEN a ELSE b
Max(a, b) == IF a > b THEN a ELSE b
Abs(a) == IF a < 0 THEN 0 - a ELSE a

\* Math.round(values.volume * 100) of a Twist value in thousandths (>= 0)
RoundPercent(t) == (t + 5) \div 10

\* currentVolume / 100 as a virtual device volume (thousandths)
PercentToVirtual(v) == v * 10

NewVolumeUp_NoClamp(v) == v + VOLUME_STEP
\* Math.min(100, currentVolume + 10)
NewVolumeUp(v) == Min(MAX_VOLUME, v + VOLUME_STEP)

\* Math.max(0, currentVolume - 10)
NewVolumeDown(v) == Max(MIN_VOLUME, v - VOLUME_STEP)

\* timeSinceLastCommand < PLAYBACK_COOLDOWN_MS, where timeSinceLastCommand is
\* Date.now() - lastPlaybackCommandTime (lines 347-350, 385-388, 656-659, 710-713)
InCooldown == sinceLast < PLAYBACK_COOLDOWN_MS

IsPlaybackCommand_Inclusive(volumeChange) == Abs(volumeChange) >= THRESHOLD
\* Math.abs(volumeChange) > 0.1
IsPlaybackCommand(volumeChange) == Abs(volumeChange) > THRESHOLD

----------------------------------------------------------------------------
(* Requests, responses and the log of what an invocation did *)

Undefined == -1     \* an absent number (values.volume === undefined, no data)

NoData == [key |-> "", str |-> "", num |-> Undefined]
VolumeData(n) == [key |-> "volume", str |-> "", num |-> n]
PowerData(s) == [key |-> "power", str |-> s, num |-> Undefined]
EnableData(s) == [key |-> "enable", str |-> s, num |-> Undefined]
PlaybackData(s) == [key |-> "playback", str |-> s, num |-> Undefined]

\* the url built at lines 72-81: http://<ip><endpoint>?<key>=<value>
Url(ip, endpoint, data) ==
    [ip |-> ip, seg |-> endpoint[1], method |-> endpoint[2],
     key |-> data.key, str |-> data.str, num |-> data.num]

NoUrl == [ip |-> "", seg |-> "", method |-> "", key |-> "", str |-> "", num |-> Undefined]

\* a response body: the fields of getStatus / getPlayInfo the script reads
NoBody == [power |-> "", volume |-> Undefined, mute |-> FALSE, playback |-> ""]

NoReq == [url |-> NoUrl, age |-> Undefined, state |-> "none", body |-> NoBody]

\* an entry of an invocation's log: a request sent (for the speaker of index
\* spk, 0 for none), or a virtual device state update
LogHttp(url, spk) == [op |-> "http", url |-> url, spk |-> spk, id |-> "", vol |-> Undefined]
LogVd(id, vol) == [op |-> "vd", url |-> NoUrl, spk |-> 0, id |-> id, vol |-> vol]

\* the invocations: 0 is initializeYamahaIntegration(), k the handler of event k
Slots == 0..MaxEvents
EventSlots == 1..MaxEvents

Idle ==
    [kind |-> "idle", dev |-> "", pc |-> "idle", elapsed |-> Undefined, arg |-> Undefined,
     idx |-> 0, req |-> NoReq, log |-> << >>, status |-> NoBody, ok |-> FALSE,
     reported |-> Undefined, pbRead |-> << >>, recent |-> FALSE, cooldown |-> FALSE,
     st0 |-> << >>, failed |-> FALSE, failedAt |-> {}, settled |-> << >>]

\* a playback command was accepted less than a cooldown ago: the invocation
\* of handleSkipDeviceUpdate that read its currentTime then is running or has returned
RecentCommand ==
    \E j \in EventSlots :
        /\ hs[j].kind = "skip"
        /\ hs[j].elapsed # Undefined
        /\ hs[j].elapsed < PLAYBACK_COOLDOWN_MS

\* what getPlaybackStatus would answer for each speaker right now
PlaybackStates ==
    [k \in 1..Len(Speakers) |->
        IF dev.power[Speakers[k].zone] # "on" THEN "off" ELSE dev.playback]

\* a new invocation of an async function, before its first statement.
\* recent (it arrived less than a cooldown after an accepted playback command
\* did), cooldown (timeSinceLastCommand was below the cooldown when it
\* arrived), st0 (the playback status of each speaker when it arrived),
\* status/ok (the status it parsed), reported (the volume its mirror read),
\* pbRead (the playback status it got per speaker), failed (a request of it
\* failed), failedAt (the places in the log of the requests that failed),
\* settled (how the promise of each of its requests settled, in order) and
\* log are history fields: the script does not read them.
NewHandler(kind, deviceId) ==
    [Idle EXCEPT !.kind = kind, !.dev = deviceId, !.pc = "run",
                 !.recent = RecentCommand, !.cooldown = InCooldown,
                 !.st0 = PlaybackStates]

\* sendYamahaRequest up to http.makeRequest: the invocation h now awaits the
\* promise of this request at the await named `at`
SendYamahaRequest(h, ip, endpoint, data, at) ==
    LET url == Url(ip, endpoint, data) IN
    [h EXCEPT !.pc = at,
              !.req = [url |-> url, age |-> 0, state |-> "sent", body |-> NoBody],
              !.log = Append(@, LogHttp(url, h.idx))]

\* the async function returns (or its try/catch swallowed the error)
Done(h) == [h EXCEPT !.pc = "done", !.req = NoReq]

\* flicApp.virtualDeviceUpdateState('Speaker', id, {volume: vol}), as seen in the log
WithVd(h, id, vol) == [h EXCEPT !.log = Append(@, LogVd(id, vol))]

----------------------------------------------------------------------------
(* The receiver (Yamaha Extended Control API) *)

\* the state of the receiver after it has handled the request
DeviceApply(d, url) ==
    CASE url.method = "setVolume" /\ url.key = "volume" ->
            [d EXCEPT !.volume[url.seg] = url.num]
      [] url.method = "setPower" /\ url.key = "power" ->
            [d EXCEPT !.power[url.seg] = url.str]
      [] url.method = "setMute" /\ url.key = "enable" ->
            [d EXCEPT !.mute[url.seg] = (url.str = "true")]
      [] url.method = "setPlayback" /\ url.key = "playback" /\ url.str \in {"play", "pause"} ->
            [d EXCEPT !.playback = url.str]
      [] OTHER -> d

\* the body the receiver answers with
DeviceBody(d, url) ==
    CASE url.method = "getStatus" ->
            [NoBody EXCEPT !.power = d.power[url.seg], !.volume = d.volume[url.seg],
                           !.mute = d.mute[url.seg]]
      [] url.method = "getPlayInfo" -> [NoBody EXCEPT !.playback = d.playback]
      [] OTHER -> NoBody

----------------------------------------------------------------------------
(* Volume: setYamahaVolume and getCurrentVolumeAndUpdate *)

\* what the settling of the awaited promise hands to the invocation:
\* resolved (the callback came without error before the timer), parsable
\* (JSON.parse of the body does not throw) and the body
Outcome(resolved, parsable, body) ==
    [resolved |-> resolved, parsable |-> parsable, body |-> body]

\* setYamahaVolume up to its await (lines 131-142); callers catch its throw
SetYamahaVolume(h, speakerId, volume) ==
    LET sp == FindSpeaker(speakerId) IN
    IF sp = 0
    THEN Done([h EXCEPT !.failed = TRUE])
    ELSE SendYamahaRequest([h EXCEPT !.idx = sp], Speakers[sp].ip,
                           Endpoint(Speakers[sp].zone, "volume"), VolumeData(volume),
                           "setVolume")

\* getCurrentVolumeAndUpdate up to its await (lines 759-761)
GetCurrentVolumeAndUpdate(h, sp) ==
    SendYamahaRequest([h EXCEPT !.idx = sp], Speakers[sp].ip,
                      Endpoint(Speakers[sp].zone, "status"), NoData, "sync")

\* setYamahaVolume from its await on (lines 144-155)
SetYamahaVolumeResume(i, h, out) ==
    /\ hs' = [hs EXCEPT ![i] = IF out.resolved
                               THEN GetCurrentVolumeAndUpdate(h, h.idx)
                               ELSE Done(h)]
    /\ UNCHANGED <<vd, sinceLast, curVol, ranges>>

----------------------------------------------------------------------------
(* Action handlers *)

\* handleDeviceVolumeUp up to its await (lines 345-364)
HandleDeviceVolumeUp(i, deviceId) ==
    LET h == NewHandler("volume up", deviceId)
        sp == FindSpeaker(deviceId)
    IN  /\ hs' = [hs EXCEPT ![i] =
                    IF InCooldown \/ sp = 0
                    THEN Done(h)
                    ELSE SendYamahaRequest([h EXCEPT !.idx = sp], Speakers[sp].ip,
                                           Endpoint(Speakers[sp].zone, "status"),
                                           NoData, "status")]
        /\ UNCHANGED <<vd, sinceLast, curVol, ranges>>

HandleDeviceVolumeUpResume_Retry(i, h, out) ==
    /\ hs' = [hs EXCEPT ![i] =
                IF out.resolved /\ out.parsable
                THEN SetYamahaVolume([h EXCEPT !.status = out.body, !.ok = TRUE,
                                               !.arg = NewVolumeUp(out.body.volume)],
                                     h.dev, NewVolumeUp(out.body.volume))
                ELSE SendYamahaRequest(h, Speakers[h.idx].ip,
                                       Endpoint(Speakers[h.idx].zone, "status"),
                                       NoData, "status")]
    /\ UNCHANGED <<vd, sinceLast, curVol, ranges>>

\* handleDeviceVolumeUp from its await on (lines 366-377)
HandleDeviceVolumeUpResume(i, h, out) ==
    /\ hs' = [hs EXCEPT ![i] =
                IF out.resolved /\ out.parsable
                THEN SetYamahaVolume([h EXCEPT !.status = out.body, !.ok = TRUE,
                                               !.arg = NewVolumeUp(out.body.volume)],
                                     h.dev, NewVolumeUp(out.body.volume))
                ELSE Done(h)]
    /\ UNCHANGED <<vd, sinceLast, curVol, ranges>>

\* handleDeviceVolumeDown up to its await (lines 383-402)
HandleDeviceVolumeDown(i, deviceId) ==
    LET h == NewHandler("volume down", deviceId)
        sp == FindSpeaker(deviceId)
    IN  /\ hs' = [hs EXCEPT ![i] =
                    IF InCooldown \/ sp = 0
                    THEN Done(h)
                    ELSE SendYamahaRequest([h EXCEPT !.idx = sp], Speakers[sp].ip,
                                           Endpoint(Speakers[sp].zone, "status"),
                                           NoData, "status")]
        /\ UNCHANGED <<vd, sinceLast, curVol, ranges>>

\* handleDeviceVolumeDown from its await on (lines 404-415)
HandleDeviceVolumeDownResume(i, h, out) ==
    /\ hs' = [hs EXCEPT ![i] =
                IF out.resolved /\ out.parsable
                THEN SetYamahaVolume([h EXCEPT !.status = out.body, !.ok = TRUE,
                                               !.arg = NewVolumeDown(out.body.volume)],
                                     h.dev, NewVolumeDown(out.body.volume))
                ELSE Done(h)]
    /\ UNCHANGED <<vd, sinceLast, curVol, ranges>>

\* newMuteState.toString()
BoolToString(b) == IF b THEN "true" ELSE "false"

MuteRequested_Same(isCurrentlyMuted) == BoolToString(isCurrentlyMuted)
\* !isCurrentlyMuted, as the enable parameter (lines 434-439)
MuteRequested(isCurrentlyMuted) == BoolToString(~isCurrentlyMuted)

PowerRequested_AlwaysOn(power) == "on"
\* isCurrentlyOn ? 'standby' : 'on' (lines 471-474)
PowerRequested(power) == IF power = "on" THEN "standby" ELSE "on"

\* handleDeviceMuteToggle up to its first await (lines 421-430)
HandleDeviceMuteToggle(i, deviceId) ==
    LET h == NewHandler("mute", deviceId)
        sp == FindSpeaker(deviceId)
    IN  /\ hs' = [hs EXCEPT ![i] =
                    IF sp = 0
                    THEN Done(h)
                    ELSE SendYamahaRequest([h EXCEPT !.idx = sp], Speakers[sp].ip,
                                           Endpoint(Speakers[sp].zone, "status"),
                                           NoData, "status")]
        /\ UNCHANGED <<vd, sinceLast, curVol, ranges>>

\* handleDeviceMuteToggle from its first await to its second (lines 432-440)
HandleDeviceMuteToggleResume(i, h, out) ==
    /\ hs' = [hs EXCEPT ![i] =
                IF out.resolved /\ out.parsable
                THEN SendYamahaRequest([h EXCEPT !.status = out.body, !.ok = TRUE],
                                       Speakers[h.idx].ip,
                                       Endpoint(Speakers[h.idx].zone, "mute"),
                                       EnableData(MuteRequested(out.body.mute)), "setMute")
                ELSE Done(h)]
    /\ UNCHANGED <<vd, sinceLast, curVol, ranges>>

\* handleDevicePowerToggle up to its first await (lines 458-467)
HandleDevicePowerToggle(i, deviceId) ==
    LET h == NewHandler("power", deviceId)
        sp == FindSpeaker(deviceId)
    IN  /\ hs' = [hs EXCEPT ![i] =
                    IF sp = 0
                    THEN Done(h)
                    ELSE SendYamahaRequest([h EXCEPT !.idx = sp], Speakers[sp].ip,
                                           Endpoint(Speakers[sp].zone, "status"),
                                           NoData, "status")]
        /\ UNCHANGED <<vd, sinceLast, curVol, ranges>>

\* handleDevicePowerToggle from its first await to its second (lines 469-477)
HandleDevicePowerToggleResume(i, h, out) ==
    /\ hs' = [hs EXCEPT ![i] =
                IF out.resolved /\ out.parsable
                THEN SendYamahaRequest([h EXCEPT !.status = out.body, !.ok = TRUE],
                                       Speakers[h.idx].ip,
                                       Endpoint(Speakers[h.idx].zone, "power"),
                                       PowerData(PowerRequested(out.body.power)), "setPower")
                ELSE Done(h)]
    /\ UNCHANGED <<vd, sinceLast, curVol, ranges>>

\* handleDevicePowerOn up to its await (lines 495-505)
HandleDevicePowerOn(i, deviceId) ==
    LET h == NewHandler("on", deviceId)
        sp == FindSpeaker(deviceId)
    IN  /\ hs' = [hs EXCEPT ![i] =
                    IF sp = 0
                    THEN Done(h)
                    ELSE SendYamahaRequest([h EXCEPT !.idx = sp], Speakers[sp].ip,
                                           Endpoint(Speakers[sp].zone, "power"),
                                           PowerData("on"), "setPower")]
        /\ UNCHANGED <<vd, sinceLast, curVol, ranges>>

HandleDevicePowerOff_Cooldown(i, deviceId) ==
    LET h == NewHandler("off", deviceId)
        sp == FindSpeaker(deviceId)
    IN  /\ hs' = [hs EXCEPT ![i] =
                    IF InCooldown \/ sp = 0
                    THEN Done(h)
                    ELSE SendYamahaRequest([h EXCEPT !.idx = sp], Speakers[sp].ip,
                                           Endpoint(Speakers[sp].zone, "power"),
                                           PowerData("standby"), "setPower")]
        /\ UNCHANGED <<vd, sinceLast, curVol, ranges>>

\* handleDevicePowerOff up to its await (lines 520-530)
HandleDevicePowerOff(i, deviceId) ==
    LET h == NewHandler("off", deviceId)
        sp == FindSpeaker(deviceId)
    IN  /\ hs' = [hs EXCEPT ![i] =
                    IF sp = 0
                    THEN Done(h)
                    ELSE SendYamahaRequest([h EXCEPT !.idx = sp], Speakers[sp].ip,
                                           Endpoint(Speakers[sp].zone, "power"),
                                           PowerData("standby"), "setPower")]
        /\ UNCHANGED <<vd, sinceLast, curVol, ranges>>

LastAwaitResume_Sync(i, h, out) ==
    /\ hs' = [hs EXCEPT ![i] = GetCurrentVolumeAndUpdate(h, h.idx)]
    /\ UNCHANGED <<vd, sinceLast, curVol, ranges>>

\* the handlers whose last await is a setMute or setPower: the result is only
\* logged (lines 442-452, 479-489, 507-514, 532-539)
LastAwaitResume(i, h, out) ==
    /\ hs' = [hs EXCEPT ![i] = Done(h)]
    /\ UNCHANGED <<vd, sinceLast, curVol, ranges>>

----------------------------------------------------------------------------
(* Playback control: the skip device *)

\* getPlaybackStatus up to its first await (lines 547-549)
GetPlaybackStatus(h, sp) ==
    SendYamahaRequest([h EXCEPT !.idx = sp], Speakers[sp].ip,
                      Endpoint(Speakers[sp].zone, "status"), NoData, "pbStatus")

PausePlayback_Play(h, sp) ==
    SendYamahaRequest(h, Speakers[sp].ip, NetusbSetPlayback, PlaybackData("play"),
                      "setPlayback")
\* pausePlayback up to its await (lines 581-585)
PausePlayback(h, sp) ==
    SendYamahaRequest(h, Speakers[sp].ip, NetusbSetPlayback, PlaybackData("pause"),
                      "setPlayback")

\* resumePlayback up to its await (lines 602-606)
ResumePlayback(h, sp) ==
    SendYamahaRequest(h, Speakers[sp].ip, NetusbSetPlayback, PlaybackData("play"),
                      "setPlayback")

\* skipToNextTrack up to its await (lines 623-627)
SkipToNextTrack(h, sp) ==
    SendYamahaRequest(h, Speakers[sp].ip, NetusbSetPlayback, PlaybackData("next"),
                      "setPlayback")

\* handleSkipDeviceUpdate after its loop (lines 693-700):
\* lastPlaybackCommandTime = currentTime, the time the invocation started
SkipFinish(i, h) ==
    /\ hs' = [hs EXCEPT ![i] = Done(WithVd(h, "skip", CENTER))]
    /\ sinceLast' = h.elapsed
    /\ vd' = [vd EXCEPT !["skip"] = CENTER]
    /\ UNCHANGED <<curVol, ranges>>

\* the for loop of handleSkipDeviceUpdate moves to its next speaker (line 671)
SkipNextSpeaker(i, h) ==
    IF h.idx < Len(Speakers)
    THEN /\ hs' = [hs EXCEPT ![i] = GetPlaybackStatus(h, h.idx + 1)]
         /\ UNCHANGED <<vd, sinceLast, curVol, ranges>>
    ELSE SkipFinish(i, h)

\* the body of the loop once playbackStatus is known (lines 675-687)
SkipControl(i, h0, playbackStatus) ==
    LET h == [h0 EXCEPT !.pbRead = Append(@, playbackStatus)]
        volumeChange == h.arg
    IN  IF volumeChange < 0 /\ playbackStatus = "play"
        THEN /\ hs' = [hs EXCEPT ![i] = PausePlayback(h, h.idx)]
             /\ UNCHANGED <<vd, sinceLast, curVol, ranges>>
        ELSE IF volumeChange > 0 /\ playbackStatus = "pause"
        THEN /\ hs' = [hs EXCEPT ![i] = ResumePlayback(h, h.idx)]
             /\ UNCHANGED <<vd, sinceLast, curVol, ranges>>
        ELSE IF volumeChange > 0 /\ playbackStatus = "play"
        THEN /\ hs' = [hs EXCEPT ![i] = SkipToNextTrack(h, h.idx)]
             /\ UNCHANGED <<vd, sinceLast, curVol, ranges>>
        ELSE SkipNextSpeaker(i, h)

\* getPlaybackStatus from its first await on (lines 551-573)
GetPlaybackStatusResume(i, h, out) ==
    IF out.resolved /\ out.parsable
    THEN IF out.body.power # "on"
         THEN SkipControl(i, h, "off")
         ELSE /\ hs' = [hs EXCEPT ![i] =
                        SendYamahaRequest(h, Speakers[h.idx].ip, NetusbPlayInfo,
                                          NoData, "playInfo")]
              /\ UNCHANGED <<vd, sinceLast, curVol, ranges>>
    ELSE SkipControl(i, h, "unknown")

\* getPlaybackStatus from its second await on (lines 560-573)
GetPlayInfoResume(i, h, out) ==
    IF out.resolved /\ out.parsable /\ out.body.playback # ""
    THEN SkipControl(i, h, out.body.playback)
    ELSE SkipControl(i, h, "unknown")

\* pausePlayback, resumePlayback, skipToNextTrack from their await on: the
\* result is only logged, and the loop goes on
SetPlaybackResume(i, h, out) == SkipNextSpeaker(i, h)

\* handleSkipDeviceUpdate up to its first await (lines 644-673). An undefined
\* values.volume makes volumeChange NaN, which compares false like 0 does.
HandleSkipDeviceUpdate(i, deviceId, volume) ==
    LET volumeChange == IF volume = Undefined THEN 0 ELSE volume - CENTER
        h == [NewHandler("skip", deviceId) EXCEPT !.arg = volumeChange]
    IN  IF deviceId # "skip"
        THEN /\ hs' = [hs EXCEPT ![i] = Done(h)]
             /\ UNCHANGED <<vd, sinceLast, curVol, ranges>>
        ELSE IF IsPlaybackCommand(volumeChange) /\ ~InCooldown
        THEN /\ hs' = [hs EXCEPT ![i] = GetPlaybackStatus([h EXCEPT !.elapsed = 0], 1)]
             /\ UNCHANGED <<vd, sinceLast, curVol, ranges>>
        ELSE /\ hs' = [hs EXCEPT ![i] = Done(WithVd(h, "skip", CENTER))]
             /\ vd' = [vd EXCEPT !["skip"] = CENTER]
             /\ UNCHANGED <<sinceLast, curVol, ranges>>

----------------------------------------------------------------------------
(* Twist volume, the volume mirror and the start of the script *)

\* handleYamahaSpeakerUpdate up to its await (lines 707-723)
HandleYamahaSpeakerUpdate(i, deviceId, volume) ==
    LET volumePercentage == RoundPercent(volume)
        h == NewHandler("twist", deviceId)
    IN  /\ hs' = [hs EXCEPT ![i] =
                    IF volume = Undefined
                    THEN Done(h)
                    ELSE IF InCooldown
                    THEN Done(h)
                    ELSE SetYamahaVolume([h EXCEPT !.arg = volumePercentage],
                                         deviceId, volumePercentage)]
        /\ UNCHANGED <<vd, sinceLast, curVol, ranges>>

\* initializeVirtualDeviceStates after the update of speaker h.idx (lines 787-794)
InitNextSpeaker(i, h, vd1) ==
    IF h.idx < Len(Speakers)
    THEN /\ hs' = [hs EXCEPT ![i] = GetCurrentVolumeAndUpdate(h, h.idx + 1)]
         /\ vd' = vd1
         /\ UNCHANGED <<sinceLast, curVol, ranges>>
    ELSE /\ hs' = [hs EXCEPT ![i] = Done(WithVd(h, "skip", SKIP_CREATE_VOLUME))]
         /\ vd' = [vd1 EXCEPT !["skip"] = SKIP_CREATE_VOLUME]
         /\ UNCHANGED <<sinceLast, curVol, ranges>>

MirrorVolume_Raw(v) == v
\* the volume given to virtualDeviceUpdateState: currentVolume / 100 (line 769)
MirrorVolume(v) == PercentToVirtual(v)

\* the virtual device given to virtualDeviceUpdateState: speaker.id (line 768)
MirrorTarget(sp) == Speakers[sp].id

\* getCurrentVolumeAndUpdate from its await on (lines 763-780), then the rest
\* of its caller: setYamahaVolume and handleYamahaSpeakerUpdate (line 724),
\* a volume up/down handler, or initializeVirtualDeviceStates
GetCurrentVolumeAndUpdateResume(i, h0, out) ==
    LET good == out.resolved /\ out.parsable
        id == MirrorTarget(h0.idx)
        vol == MirrorVolume(out.body.volume)
        h == IF good THEN WithVd([h0 EXCEPT !.reported = out.body.volume], id, vol)
             ELSE h0
        vd1 == IF good THEN [vd EXCEPT ![id] = vol] ELSE vd
    IN  IF h.kind = "init"
        THEN InitNextSpeaker(i, h, vd1)
        ELSE /\ hs' = [hs EXCEPT ![i] = Done(h)]
             /\ vd' = vd1
             /\ curVol' = IF h.kind = "twist" THEN h.arg ELSE curVol
             /\ UNCHANGED <<sinceLast, ranges>>

\* discoverVolumeRanges from its await on (lines 233-262), then
\* initializeYamahaIntegration up to the next await (lines 830-834, 787-788)
DiscoverVolumeRangesResume(i, h, out) ==
    /\ ranges' = IF out.resolved /\ out.parsable THEN "discovered" ELSE "default"
    /\ hs' = [hs EXCEPT ![i] = GetCurrentVolumeAndUpdate(h, 1)]
    /\ UNCHANGED <<vd, sinceLast, curVol>>

\* initializeYamahaIntegration up to its first await (lines 810-830, 229-231)
InitializeYamahaIntegration(h) ==
    SendYamahaRequest(h, Speakers[1].ip, SystemGetFeatures, NoData, "features")

----------------------------------------------------------------------------
(* Events *)

\* message.toLowerCase(), per word, for the words of the model
ToLower(w) ==
    CASE w = "ID1MAIN" -> "id1main"
      [] w = "ON" -> "on"
      [] OTHER -> w

\* message.toLowerCase().split(' ') of a message given as its words
SplitLower(message) == [k \in 1..Len(message) |-> ToLower(message[k])]

ValidActions ==
    { <<"volume", "up">>, <<"volume", "down">>, <<"mute">>, <<"power">>, <<"on">>, <<"off">> }

\* the action messages of the model: every action for every speaker, and a
\* message in capitals, with one word, for an unknown device, with an unknown action
Messages ==
    { <<id>> \o a : id \in SpeakerIds, a \in ValidActions }
      \cup { <<"ID1MAIN", "ON">>, <<"mute">>, <<"kitchen", "on">>, <<"id1main", "dance">> }

\* the volume messages among them
VolumeMessages == { m \in Messages : Len(m) = 3 /\ m[2] = "volume" }

\* the virtualDeviceUpdate events of the model, as <<dimmableType,
\* virtualDeviceId, values.volume>>, the volume in thousandths: the skip
\* device turned down, barely moved and turned up, the speakers turned to
\* 25.5 % and 80 %, updates without a volume, of an unconfigured speaker and
\* of a device that is no speaker
Updates ==
    { <<"Speaker", "skip", v>> : v \in {255, 450, 800, Undefined} }
      \cup { <<"Speaker", id, v>> : id \in SpeakerIds, v \in {255, 800} }
      \cup { <<"Speaker", "id1main", Undefined>>, <<"Speaker", "kitchen", 800>>,
             <<"Light", "id1main", 800>> }

\* the slot of the event that arrives now
FreeSlot == events + 1

\* the events of one behaviour are bounded, and so are those that arrive
\* before initializeYamahaIntegration() has returned
EventBudget ==
    /\ events < MaxEvents
    /\ hs[0].pc # "done" => events < MaxEarlyEvents

NoHandler == UNCHANGED <<hs, vd, sinceLast, curVol, ranges>>

\* flicApp.on('actionMessage', ...) (lines 278-321)
ActionMessage(message) ==
    /\ EventBudget
    /\ events' = events + 1
    /\ UNCHANGED <<dev, orphans, faults>>
    /\ LET parts == SplitLower(message)
           i == FreeSlot
       IN  IF Len(parts) >= 2
           THEN LET deviceId == parts[1]
                    action == SubSeq(parts, 2, Len(parts))
                IN  IF FindSpeaker(deviceId) = 0
                    THEN NoHandler
                    ELSE CASE action = <<"volume", "up">> -> HandleDeviceVolumeUp(i, deviceId)
                           [] action = <<"volume", "down">> -> HandleDeviceVolumeDown(i, deviceId)
                           [] action = <<"mute">> -> HandleDeviceMuteToggle(i, deviceId)
                           [] action = <<"power">> -> HandleDevicePowerToggle(i, deviceId)
                           [] action = <<"on">> -> HandleDevicePowerOn(i, deviceId)
                           [] action = <<"off">> -> HandleDevicePowerOff(i, deviceId)
                           [] OTHER -> NoHandler
           ELSE NoHandler

\* flicApp.on('virtualDeviceUpdate', ...) (lines 324-332)
VirtualDeviceUpdate(dimmableType, virtualDeviceId, volume) ==
    /\ EventBudget
    /\ events' = events + 1
    /\ UNCHANGED <<dev, orphans, faults>>
    /\ IF dimmableType = "Speaker"
       THEN IF virtualDeviceId = "skip"
            THEN HandleSkipDeviceUpdate(FreeSlot, virtualDeviceId, volume)
            ELSE HandleYamahaSpeakerUpdate(FreeSlot, virtualDeviceId, volume)
       ELSE NoHandler

----------------------------------------------------------------------------
(* The life of a request: sendYamahaRequest (lines 85-120) and the receiver *)

Pending(i) == hs[i].req.state \in {"sent", "served"}

\* the invocation goes on from the await it is suspended at
Resume(i, h, out) ==
    CASE h.pc = "status" /\ h.kind = "volume up" -> HandleDeviceVolumeUpResume(i, h, out)
      [] h.pc = "status" /\ h.kind = "volume down" -> HandleDeviceVolumeDownResume(i, h, out)
      [] h.pc = "status" /\ h.kind = "mute" -> HandleDeviceMuteToggleResume(i, h, out)
      [] h.pc = "status" /\ h.kind = "power" -> HandleDevicePowerToggleResume(i, h, out)
      [] h.pc = "setVolume" -> SetYamahaVolumeResume(i, h, out)
      [] h.pc = "sync" -> GetCurrentVolumeAndUpdateResume(i, h, out)
      [] h.pc \in {"setMute", "setPower"} -> LastAwaitResume(i, h, out)
      [] h.pc = "pbStatus" -> GetPlaybackStatusResume(i, h, out)
      [] h.pc = "playInfo" -> GetPlayInfoResume(i, h, out)
      [] h.pc = "setPlayback" -> SetPlaybackResume(i, h, out)
      [] h.pc = "features" -> DiscoverVolumeRangesResume(i, h, out)

\* the promise settles: the invocation no longer has a request, and remembers a failure
Settled(h, out) ==
    [h EXCEPT !.req = NoReq, !.failed = @ \/ ~out.resolved \/ ~out.parsable,
              !.failedAt = IF out.resolved /\ out.parsable THEN @ ELSE @ \cup {Len(h.log)}]

\* the promise of the awaited request settles by resolve(...) of line 109
\* ("response"), by reject of line 102 ("error") or of line 96 ("timeout")
Note(h, how) == [h EXCEPT !.settled = Append(@, how)]

\* the receiver handles a request and answers
DeviceServe(i) ==
    /\ hs[i].req.state = "sent"
    /\ dev' = DeviceApply(dev, hs[i].req.url)
    /\ hs' = [hs EXCEPT ![i].req.state = "served",
                        ![i].req.body = DeviceBody(dev', hs[i].req.url)]
    /\ UNCHANGED <<sinceLast, curVol, ranges, vd, orphans, events, faults>>

\* the bodies the script parses
Parsed(url) == url.method \in {"getStatus", "getPlayInfo", "getFeatures"}

\* the callback of http.makeRequest without error (lines 99-118): the promise
\* resolves; garbled: the body is not the JSON the script expects
HttpCallback(i, garbled) ==
    /\ hs[i].req.state = "served"
    /\ garbled => Parsed(hs[i].req.url) /\ faults < MaxFaults
    /\ faults' = IF garbled THEN faults + 1 ELSE faults
    /\ LET out == Outcome(TRUE, ~garbled, hs[i].req.body)
       IN  Resume(i, Settled(Note(hs[i], "response"), out), out)
    /\ UNCHANGED <<dev, orphans, events>>

\* the callback of http.makeRequest with an error (lines 99-103): the promise rejects
HttpError(i) ==
    /\ Pending(i)
    /\ faults < MaxFaults
    /\ faults' = faults + 1
    /\ LET out == Outcome(FALSE, FALSE, NoBody)
       IN  Resume(i, Settled(Note(hs[i], "error"), out), out)
    /\ UNCHANGED <<dev, orphans, events>>

TimerDue_Never(i) == FALSE
\* the timer of lines 95-97 is due: 5000 ms have passed and the promise is pending
TimerDue(i) == Pending(i) /\ hs[i].req.age >= REQUEST_TIMEOUT_MS

\* the timer of lines 95-97 fires: the promise rejects, the HTTP call is not
\* cancelled and stays with the network or the receiver
RequestTimeout(i) ==
    /\ TimerDue(i)
    /\ orphans' = orphans \cup {[url |-> hs[i].req.url, state |-> hs[i].req.state,
                                  slot |-> i]}
    /\ LET out == Outcome(FALSE, FALSE, NoBody)
       IN  Resume(i, Settled(Note(hs[i], "timeout"), out), out)
    /\ UNCHANGED <<dev, events>>

Timeout_Early(i) ==
    /\ Pending(i)
    /\ faults < MaxFaults
    /\ faults' = faults + 1
    /\ orphans' = orphans \cup {[url |-> hs[i].req.url, state |-> hs[i].req.state,
                                  slot |-> i]}
    /\ LET out == Outcome(FALSE, FALSE, NoBody)
       IN  Resume(i, Settled(Note(hs[i], "timeout"), out), out)
    /\ UNCHANGED <<dev, events>>

\* the timer fires, as one of the failures of a behaviour
Timeout(i) ==
    /\ faults < MaxFaults
    /\ faults' = faults + 1
    /\ RequestTimeout(i)

\* the timer fires, with no bound on how often
TimeoutAny(i) ==
    /\ RequestTimeout(i)
    /\ UNCHANGED faults

\* the receiver handles a request whose promise the timer has rejected
OrphanServe(o) ==
    /\ o.state = "sent"
    /\ dev' = DeviceApply(dev, o.url)
    /\ orphans' = (orphans \ {o}) \cup {[o EXCEPT !.state = "served"]}
    /\ UNCHANGED <<sinceLast, curVol, ranges, hs, vd, events, faults>>

\* the callback of a request whose promise the timer has rejected (lines
\* 99-118): clearTimeout and resolve/reject change nothing any more
LateCallback(o) ==
    /\ orphans' = orphans \ {o}
    /\ UNCHANGED <<sinceLast, curVol, ranges, hs, vd, dev, events, faults>>

\* an elapsed time t after TickMs more, saturating at cap; Undefined stays
Later(t, cap) == IF t = Undefined THEN Undefined ELSE Min(cap, t + TickMs)

\* time passes; a timer that is due fires before time passes further
Tick ==
    /\ \A i \in Slots : ~TimerDue(i)
    /\ sinceLast' = Later(sinceLast, PLAYBACK_COOLDOWN_MS)
    /\ hs' = [i \in Slots |->
                [hs[i] EXCEPT !.elapsed = Later(@, PLAYBACK_COOLDOWN_MS),
                              !.req.age = Later(@, REQUEST_TIMEOUT_MS)]]
    /\ UNCHANGED <<curVol, ranges, vd, dev, orphans, events, faults>>

----------------------------------------------------------------------------
(* The specification *)

\* the script has been loaded: initializeYamahaIntegration() is at its first
\* await; the receiver is in one of the states of devices
InitWith(devices) ==
    /\ sinceLast = PLAYBACK_COOLDOWN_MS
    /\ curVol = 50
    /\ ranges = "default"
    /\ events = 0
    /\ faults = 0
    /\ orphans = {}
    /\ vd = [id \in SpeakerIds \cup {"skip"} |-> Undefined]
    /\ dev \in devices
    /\ hs = [i \in Slots |->
                IF i = 0
                THEN InitializeYamahaIntegration(
                        [Idle EXCEPT !.kind = "init", !.pc = "run"])
                ELSE Idle]

\* the receiver and the network; the requests of the invocations in
\* `failing` may fail
Environment(failing) ==
    \/ \E i \in Slots : DeviceServe(i)
    \/ \E i \in Slots : HttpCallback(i, FALSE)
    \/ \E i \in failing : HttpCallback(i, TRUE)
    \/ \E i \in failing : HttpError(i)
    \/ \E i \in failing : Timeout(i)
    \/ \E o \in orphans : OrphanServe(o)
    \/ \E o \in orphans : LateCallback(o)
    \/ Tick

\* In the specifications below the requests of the start-up succeed, and the
\* requests of the event handlers may fail.

\* Action messages. The receiver starts on, unmuted and nearly silent, or in
\* standby, muted and nearly at full volume.
ActionDevices ==
    { [power |-> [z \in Zones |-> "on"], volume |-> [z \in Zones |-> 5],
       mute |-> [z \in Zones |-> FALSE], playback |-> "play"],
      [power |-> [z \in Zones |-> "standby"], volume |-> [z \in Zones |-> 95],
       mute |-> [z \in Zones |-> TRUE], playback |-> "stop"] }

InitActions == InitWith(ActionDevices)

NextActions ==
    \/ \E m \in Messages : ActionMessage(m)
    \/ Environment(EventSlots)

SpecActions == InitActions /\ [][NextActions]_vars

\* Volume: updates of the speakers' virtual devices and volume messages, with
\* the receiver as above.
VolumeUpdates == { u \in Updates : u[2] # "skip" }

NextVolume ==
    \/ \E u \in VolumeUpdates : VirtualDeviceUpdate(u[1], u[2], u[3])
    \/ \E m \in VolumeMessages : ActionMessage(m)
    \/ Environment(EventSlots)

SpecVolume == InitActions /\ [][NextVolume]_vars

\* Playback: updates of the skip device, and a volume update and two volume
\* messages for the cooldown they share. Both zones are on, or only zone2 is;
\* netusb plays, is paused or is stopped.
SkipDevices ==
    { [power |-> pw, volume |-> [z \in Zones |-> 95],
       mute |-> [z \in Zones |-> FALSE], playback |-> pb] :
        pw \in { [z \in Zones |-> "on"],
                 [z \in Zones |-> IF z = "main" THEN "standby" ELSE "on"] },
        pb \in {"play", "pause", "stop"} }

SkipUpdates == { u \in Updates : u[2] = "skip" } \cup { <<"Speaker", "id1main", 800>> }

SkipMessages == { <<"id1main", "volume", "up">>, <<"id1zone2", "volume", "down">> }

InitSkip == InitWith(SkipDevices)

NextSkip ==
    \/ \E u \in SkipUpdates : VirtualDeviceUpdate(u[1], u[2], u[3])
    \/ \E m \in SkipMessages : ActionMessage(m)
    \/ Environment(EventSlots)

SpecSkip == InitSkip /\ [][NextSkip]_vars

\* Power: the on and off messages, and the skip device turned up for the cooldown.
PowerUpdates == { u \in Updates : u[2] = "skip" /\ u[3] = 800 }

PowerMessages == { m \in Messages : Len(m) = 2 /\ ToLower(m[2]) \in {"on", "off"} }

NextPower ==
    \/ \E u \in PowerUpdates : VirtualDeviceUpdate(u[1], u[2], u[3])
    \/ \E m \in PowerMessages : ActionMessage(m)
    \/ Environment(EventSlots)

SpecPower == InitSkip /\ [][NextPower]_vars

\* Small movements: the skip device turned to 0.4, 0.45 and 0.6, and turned up
\* to 0.8 for the cooldown.
SmallUpdates == { <<"Speaker", "skip", v>> : v \in {400, 450, 600, 800} }

NextSmall ==
    \/ \E u \in SmallUpdates : VirtualDeviceUpdate(u[1], u[2], u[3])
    \/ Environment(EventSlots)

SpecSmall == InitSkip /\ [][NextSmall]_vars

\* Errors: one message of every action, the skip device turned down and up,
\* a speaker turned to 25.5 % and an update of an unconfigured speaker. Both
\* zones are on; netusb plays or is paused.
ErrorDevices == { d \in SkipDevices : d.power["main"] = "on" /\ d.playback # "stop" }

ErrorMessages == { m \in Messages : m[1] = "id1main" }

ErrorUpdates ==
    { u \in Updates : \/ u[2] = "skip" /\ u[3] \in {255, 800}
                      \/ u[2] = "id1zone2" /\ u[3] = 255
                      \/ u[2] = "kitchen" }

InitErrors == InitWith(ErrorDevices)

NextErrors ==
    \/ \E u \in ErrorUpdates : VirtualDeviceUpdate(u[1], u[2], u[3])
    \/ \E m \in ErrorMessages : ActionMessage(m)
    \/ Environment(EventSlots)

SpecErrors == InitErrors /\ [][NextErrors]_vars

\* Termination: the receiver answers or not, as it likes, and every request
\* may time out, those of the start-up too. An event of any kind of handler
\* arrives during the start-up or after it; the receiver is on and plays.
LiveDevices == { d \in ErrorDevices : d.playback = "play" }

LiveUpdates == { u \in Updates : u[2] \in {"skip", "id1main"} /\ u[3] = 800 }

LiveMessages == { <<"id1main", "volume", "up">>, <<"id1main", "power">> }

InitLive == InitWith(LiveDevices)

EnvironmentLive ==
    \/ \E i \in Slots : DeviceServe(i)
    \/ \E i \in Slots : HttpCallback(i, FALSE)
    \/ \E i \in Slots : TimeoutAny(i)
    \/ \E o \in orphans : OrphanServe(o)
    \/ \E o \in orphans : LateCallback(o)
    \/ Tick

NextLive ==
    \/ events < MaxLiveEvents /\ \E u \in LiveUpdates : VirtualDeviceUpdate(u[1], u[2], u[3])
    \/ events < MaxLiveEvents /\ \E m \in LiveMessages : ActionMessage(m)
    \/ EnvironmentLive

\* time passes, and a timer that is due fires (setTimeout, lines 95-97);
\* nothing makes the receiver answer
FairLive ==
    /\ WF_vars(Tick)
    /\ \A i \in Slots : WF_vars(TimeoutAny(i))

SpecLive == InitLive /\ [][NextLive]_vars /\ FairLive

----------------------------------------------------------------------------
(* Properties *)

\* the requests an invocation has sent so far
Requests(h) == SelectSeq(h.log, LAMBDA e : e.op = "http")

\* the invocation of handleSkipDeviceUpdate passed the cooldown check
AcceptedSkip(h) == h.kind = "skip" /\ h.elapsed # Undefined

\* the setPlayback requests an invocation has sent so far for speaker k
PlaybackSent(h, k) ==
    SelectSeq(h.log, LAMBDA e : e.op = "http" /\ e.url.method = "setPlayback" /\ e.spk = k)

SentPlayback(h, k, what) ==
    \E n \in 1..Len(h.log) :
        /\ h.log[n].op = "http"
        /\ h.log[n].spk = k
        /\ h.log[n].url = [ip |-> Speakers[k].ip, seg |-> "netusb", method |-> "setPlayback",
                           key |-> "playback", str |-> what, num |-> Undefined]

\* C1: a playback command of the skip device that arrives less than 2500 ms
\* after an accepted one did sends no request, also while the requests of
\* the accepted one are still in flight.
C1_CooldownBlocksPlayback ==
    \A i \in EventSlots :
        (hs[i].kind = "skip" /\ IsPlaybackCommand(hs[i].arg) /\ hs[i].recent)
            => Requests(hs[i]) = << >>

\* C2: a volume change (Twist update with a volume, volume up, volume down)
\* that arrives less than 2500 ms after an accepted playback command did sends
\* no request and updates no virtual device.
C2_CooldownBlocksVolume ==
    \A i \in EventSlots :
        (hs[i].kind \in {"twist", "volume up", "volume down"} /\ hs[i].recent)
            => hs[i].log = << >>

\* C3: for an accepted skip update turned down, every speaker whose playback
\* status was read as 'play' is sent playback=pause, and no speaker is sent
\* playback=play or playback=next.
C3_TwistDownPauses ==
    \A i \in EventSlots :
        (AcceptedSkip(hs[i]) /\ hs[i].arg < 0 - THRESHOLD) =>
            /\ \A n \in 1..Len(hs[i].log) :
                    hs[i].log[n].url.method = "setPlayback" => hs[i].log[n].url.str = "pause"
            /\ \A k \in 1..Len(hs[i].pbRead) :
                    IF hs[i].pbRead[k] = "play"
                    THEN SentPlayback(hs[i], k, "pause") /\ Len(PlaybackSent(hs[i], k)) = 1
                    ELSE PlaybackSent(hs[i], k) = << >>

\* C3, its case: a skip update turned down has returned after it read 'play'
\* for a speaker and sent it playback=pause
C3_Witness ==
    \E i \in EventSlots :
        /\ AcceptedSkip(hs[i]) /\ hs[i].arg < 0 - THRESHOLD /\ hs[i].pc = "done"
        /\ \E k \in 1..Len(hs[i].pbRead) :
                hs[i].pbRead[k] = "play" /\ SentPlayback(hs[i], k, "pause")

\* C4: for an accepted skip update turned up, a speaker that was paused when
\* the event arrived is sent playback=play and not playback=next, one that
\* was playing is sent playback=next, one in another state is sent nothing.
C4_TwistUpResumesOrSkips ==
    \A i \in EventSlots :
        (AcceptedSkip(hs[i]) /\ hs[i].arg > THRESHOLD) =>
            \A k \in 1..Len(Speakers) :
                /\ hs[i].st0[k] = "pause" => ~SentPlayback(hs[i], k, "next")
                /\ hs[i].st0[k] \notin {"pause", "play"} => PlaybackSent(hs[i], k) = << >>
                /\ (hs[i].pc = "done" /\ ~hs[i].failed /\ hs[i].st0[k] = "pause")
                        => SentPlayback(hs[i], k, "play")
                /\ (hs[i].pc = "done" /\ ~hs[i].failed /\ hs[i].st0[k] = "play")
                        => SentPlayback(hs[i], k, "next")

\* the url of a request to the zone of speaker sp
ZoneUrl(sp, method, key, str, num) ==
    [ip |-> Speakers[sp].ip, seg |-> Speakers[sp].zone, method |-> method,
     key |-> key, str |-> str, num |-> num]

StatusUrl(sp) == ZoneUrl(sp, "getStatus", "", "", Undefined)

\* C5: an accepted volume up reads the volume v of the zone with getStatus and
\* then sends setVolume with min(100, v + 10), volume down with max(0, v - 10);
\* the setVolume goes to the zone of the named speaker, once, and only after
\* the getStatus succeeded.
C5_VolumeStep ==
    \A i \in EventSlots :
        (hs[i].kind \in {"volume up", "volume down"} /\ ~hs[i].cooldown) =>
            LET h == hs[i]
                sp == FindSpeaker(h.dev)
                R == Requests(h)
                v == h.status.volume
                target == IF h.kind = "volume up"
                          THEN (IF v + 10 > 100 THEN 100 ELSE v + 10)
                          ELSE (IF v - 10 < 0 THEN 0 ELSE v - 10)
            IN  /\ Len(R) >= 1 /\ R[1].url = StatusUrl(sp)
                /\ h.ok <=> Len(R) >= 2
                /\ Len(R) >= 2 => R[2].url = ZoneUrl(sp, "setVolume", "volume", "", target)
                /\ \A n \in 1..Len(R) : R[n].url.method = "setVolume" => n = 2

\* C5, its case: a volume up has returned after it read 95 and sent volume=100
C5_Witness ==
    \E i \in EventSlots :
        /\ hs[i].kind = "volume up" /\ hs[i].pc = "done"
        /\ hs[i].status.volume = 95
        /\ Len(Requests(hs[i])) >= 2
        /\ Requests(hs[i])[2].url.method = "setVolume"
        /\ Requests(hs[i])[2].url.num = 100

\* the requests and virtual device updates from the setVolume at place n of
\* the log on are as a volume change makes them
MirrorAfter(h, n) ==
    LET L == h.log
        sp == h.idx
    IN  /\ L[n].url.seg = Speakers[sp].zone
        /\ h.pc = "setVolume" => Len(L) = n
        /\ h.pc = "sync" => Len(L) = n + 1
        /\ (h.pc = "done" /\ ~h.failed) => Len(L) = n + 2
        /\ Len(L) > n => L[n + 1] = LogHttp(StatusUrl(sp), sp)
        /\ Len(L) > n + 1 =>
                /\ L[n + 2] = LogVd(Speakers[sp].id, h.reported * 10)
                /\ Len(L) = n + 2

\* C6: after a volume change whose setVolume succeeds the handler sends
\* getStatus to the same zone and then sets the virtual device of that speaker
\* to the reported volume / 100: setVolume, getStatus, update, in this order,
\* and no other virtual device is updated.
C6_MirrorAfterChange ==
    \A i \in EventSlots :
        hs[i].kind \in {"twist", "volume up", "volume down"} =>
            \A n \in 1..Len(hs[i].log) :
                /\ hs[i].log[n].url.method = "setVolume" => MirrorAfter(hs[i], n)
                /\ hs[i].log[n].op = "vd" =>
                        /\ n >= 3
                        /\ hs[i].log[n - 2].url.method = "setVolume"
                        /\ hs[i].log[n].id = hs[i].dev

\* C6, its case: a Twist update to 25.5 % has returned after setVolume(26),
\* getStatus and the update of its virtual device to the volume reported
C6_Witness ==
    \E i \in EventSlots :
        /\ hs[i].kind = "twist" /\ hs[i].pc = "done" /\ hs[i].dev = "id1zone2"
        /\ Len(hs[i].log) = 3
        /\ hs[i].log[1].url = ZoneUrl(2, "setVolume", "volume", "", 26)
        /\ hs[i].log[2].url = StatusUrl(2)
        /\ hs[i].log[3] = LogVd("id1zone2", hs[i].reported * 10)
        /\ hs[i].reported >= 0

\* C7: when no invocation runs, no request is left and none has failed, the
\* virtual device of every speaker shows the volume of its zone / 100.
C7_VirtualDevicesInSync ==
    ( /\ \A i \in Slots : hs[i].pc \in {"idle", "done"}
      /\ hs[0].pc = "done"
      /\ orphans = {}
      /\ faults = 0 )
        => \A k \in 1..Len(Speakers) :
                vd[Speakers[k].id] = dev.volume[Speakers[k].zone] * 10

\* C8: a mute message sends getStatus to the zone of the speaker and then
\* setMute with enable = the negation of the mute reported; no setMute when
\* the getStatus failed.
C8_MuteToggle ==
    \A i \in EventSlots :
        hs[i].kind = "mute" =>
            LET h == hs[i]
                sp == FindSpeaker(h.dev)
                R == Requests(h)
            IN  /\ Len(R) >= 1 /\ Len(R) <= 2 /\ R[1].url = StatusUrl(sp)
                /\ h.ok <=> Len(R) = 2
                /\ Len(R) = 2 =>
                        R[2].url = ZoneUrl(sp, "setMute", "enable",
                                           IF h.status.mute THEN "false" ELSE "true",
                                           Undefined)

\* C8, its case: a mute message has returned after it read mute = true and
\* sent enable=false
C8_Witness ==
    \E i \in EventSlots :
        /\ hs[i].kind = "mute" /\ hs[i].pc = "done" /\ hs[i].ok /\ hs[i].status.mute
        /\ Len(Requests(hs[i])) = 2
        /\ Requests(hs[i])[2].url.str = "false"

\* C9: a power message sends getStatus and then setPower with standby when
\* the power reported is 'on' and with on otherwise; no setPower when the
\* getStatus failed.
C9_PowerToggle ==
    \A i \in EventSlots :
        hs[i].kind = "power" =>
            LET h == hs[i]
                sp == FindSpeaker(h.dev)
                R == Requests(h)
            IN  /\ Len(R) >= 1 /\ Len(R) <= 2 /\ R[1].url = StatusUrl(sp)
                /\ h.ok <=> Len(R) = 2
                /\ Len(R) = 2 =>
                        R[2].url = ZoneUrl(sp, "setPower", "power",
                                           IF h.status.power = "on" THEN "standby" ELSE "on",
                                           Undefined)

\* C9, its case: a power message has returned after it read power = 'on' and
\* sent power=standby
C9_Witness ==
    \E i \in EventSlots :
        /\ hs[i].kind = "power" /\ hs[i].pc = "done" /\ hs[i].ok
        /\ hs[i].status.power = "on"
        /\ Len(Requests(hs[i])) = 2
        /\ Requests(hs[i])[2].url.str = "standby"

\* C10: an on message sends one request, setPower?power=on, an off message
\* one, setPower?power=standby, to the zone of the named speaker, at once,
\* with no getStatus before it and whether or not the cooldown is active.
C10_DirectPower ==
    \A i \in EventSlots :
        hs[i].kind \in {"on", "off"} =>
            LET sp == FindSpeaker(hs[i].dev) IN
            hs[i].log = << LogHttp(ZoneUrl(sp, "setPower", "power",
                                           IF hs[i].kind = "on" THEN "on" ELSE "standby",
                                           Undefined), sp) >>

\* C10, its case: an off message that arrived while the cooldown was active
\* has returned after its one request
C10_Witness ==
    \E i \in EventSlots :
        /\ hs[i].kind = "off" /\ hs[i].cooldown /\ hs[i].pc = "done"
        /\ Len(hs[i].log) = 1
        /\ hs[i].log[1].url.str = "standby"

\* C11: a skip update with |volume - 0.5| <= 0.1 sends no request and leaves
\* the time since the last playback command as it is (it neither starts nor
\* extends the cooldown), whether or not the cooldown is active: the
\* invocation returns at once, after it has reset the skip device.
C11_SmallMovementIgnored ==
    [][ \A i \in EventSlots :
            ( /\ hs[i].kind = "idle"
              /\ hs'[i].kind = "skip"
              /\ Abs(hs'[i].arg) <= THRESHOLD )
                => /\ sinceLast' = sinceLast
                   /\ hs'[i].pc = "done"
                   /\ hs'[i].log = << LogVd("skip", CENTER) >>
                   /\ dev' = dev /\ orphans' = orphans ]_vars

\* C11, its case: the skip device was turned to 0.6 while the cooldown was
\* active, and the invocation has returned without a request
C11_Witness ==
    \E i \in EventSlots :
        /\ hs[i].kind = "skip" /\ hs[i].arg = 100 /\ hs[i].cooldown
        /\ hs[i].pc = "done" /\ Requests(hs[i]) = << >>
        /\ sinceLast < PLAYBACK_COOLDOWN_MS

\* C12: when a request of an event handler fails (error, timeout or a body
\* that is no JSON) the handler sends no further request for that speaker,
\* neither the same one again nor a follow-up, and the error stays inside
\* it: a handler other than the skip handler returns, and the skip handler
\* goes on with the next speaker and ends as it does without a failure.
C12_ErrorsCaughtNoRetry ==
    \A i \in EventSlots :
        \A n \in hs[i].failedAt :
            LET h == hs[i]
                L == h.log
                k == L[n].spk
            IN  /\ L[n].op = "http"
                /\ \A m \in (n + 1)..Len(L) : L[m].op = "http" => L[m].spk # k
                /\ h.kind # "skip" => h.pc = "done" /\ Len(L) = n
                /\ h.kind = "skip" =>
                        IF k < Len(Speakers)
                        THEN Len(L) > n /\ L[n + 1] = LogHttp(StatusUrl(k + 1), k + 1)
                        ELSE h.pc = "done" /\ Len(L) = n + 1
                                /\ L[n + 1] = LogVd("skip", CENTER)

\* C12, its case: the getStatus of the first speaker failed for a skip
\* update, and the handler has returned after it handled the second speaker
C12_Witness ==
    \E i \in EventSlots :
        /\ hs[i].kind = "skip" /\ hs[i].pc = "done"
        /\ hs[i].failedAt = {1}
        /\ \E m \in 1..Len(hs[i].log) :
                hs[i].log[m].op = "http" /\ hs[i].log[m].spk = 2
                    /\ hs[i].log[m].url.method = "setPlayback"

\* the promise of a request of invocation i settles in this step, as `how`
SettlesAs(i, how) ==
    /\ Len(hs'[i].settled) = Len(hs[i].settled) + 1
    /\ hs'[i].settled[Len(hs'[i].settled)] = how

\* time passes in this step for an invocation that awaits a request
TimePasses ==
    \E j \in Slots :
        /\ Pending(j)
        /\ hs'[j].req.url = hs[j].req.url
        /\ hs'[j].req.age > hs[j].req.age

\* C13: the promise of every request settles exactly once: with the response
\* when the callback comes without error, with an error when the callback
\* reports one, with the timeout when 5000 ms have passed without a callback
\* (no time passes beyond that with the promise pending); a callback that
\* comes after the timeout changes nothing of the script.
C13_SettlesOnce ==
    /\ [](\A i \in Slots :
            Len(hs[i].settled) = Len(Requests(hs[i])) - (IF Pending(i) THEN 1 ELSE 0))
    /\ [][ /\ \A i \in Slots :
                /\ hs'[i].settled # hs[i].settled =>
                        /\ Pending(i)
                        /\ \E how \in {"response", "error", "timeout"} : SettlesAs(i, how)
                /\ SettlesAs(i, "response") =>
                        /\ hs[i].req.state = "served"
                        /\ orphans' = orphans
                /\ SettlesAs(i, "error") =>
                        /\ Len(hs[i].log) \in hs'[i].failedAt
                        /\ orphans' = orphans
                /\ SettlesAs(i, "timeout") =>
                        /\ hs[i].req.age >= REQUEST_TIMEOUT_MS
                        /\ Len(hs[i].log) \in hs'[i].failedAt
                /\ (Pending(i) /\ hs[i].req.age >= REQUEST_TIMEOUT_MS) => ~TimePasses
           /\ (\E o \in orphans : o \notin orphans') =>
                UNCHANGED <<hs, vd, sinceLast, curVol, ranges>> ]_vars

\* C13, its case: the setPower of an on message timed out, the receiver
\* handled it afterwards and its callback came late; the handler saw the
\* timeout only
C13_Witness ==
    \E i \in EventSlots :
        /\ hs[i].kind = "on" /\ hs[i].pc = "done"
        /\ hs[i].settled = << "timeout" >>
        /\ orphans = {}
        /\ dev.power[Speakers[FindSpeaker(hs[i].dev)].zone] = "on"

\* the requests of invocation i that the receiver has not handled yet: the
\* one it awaits, and those whose promise the timer has rejected
Outstanding(i) ==
    Cardinality({o \in orphans : o.slot = i /\ o.state = "sent"})
        + (IF hs[i].req.state = "sent" THEN 1 ELSE 0)

\* C15: of the requests sent for one event at most one is outstanding at any
\* moment, also after a request has timed out.
C15_OneOutstanding == \A i \in EventSlots : Outstanding(i) <= 1

ActionKinds == {"volume up", "volume down", "mute", "power", "on", "off"}

\* the methods of the requests an invocation has sent so far
Methods(h) == [n \in 1..Len(Requests(h)) |-> Requests(h)[n].url.method]

\* the methods of the requests a handler of an action message sends at most
MethodsOf(kind) ==
    CASE kind \in {"volume up", "volume down"} -> << "getStatus", "setVolume", "getStatus" >>
      [] kind = "mute" -> << "getStatus", "setMute" >>
      [] kind = "power" -> << "getStatus", "setPower" >>
      [] kind \in {"on", "off"} -> << "setPower" >>

\* C16, as stated: the handler of an action message sends at most two requests.
C16_AtMostTwoRequests ==
    \A i \in EventSlots :
        hs[i].kind \in ActionKinds => Len(Requests(hs[i])) <= 2

\* C16, amended: the handler of an action message sends its requests one
\* after the other, each after the one before has settled: at most three for
\* volume up and volume down (getStatus, setVolume, and the getStatus of the
\* volume mirror), at most two for mute and power, and one for on and off.
C16_RequestsPerAction ==
    \A i \in EventSlots :
        hs[i].kind \in ActionKinds =>
            LET M == Methods(hs[i])
                A == MethodsOf(hs[i].kind)
            IN  /\ Len(M) <= Len(A)
                /\ M = SubSeq(A, 1, Len(M))
                /\ Len(hs[i].settled) >= Len(M) - 1
                /\ \A n \in 1..Len(M) :
                        Requests(hs[i])[n].url.seg = Speakers[FindSpeaker(hs[i].dev)].zone

\* C16, its case: a volume up message has returned after three requests
C16_Witness ==
    \E i \in EventSlots :
        /\ hs[i].kind = "volume up" /\ hs[i].pc = "done"
        /\ Len(Requests(hs[i])) = 3
        /\ hs[i].settled = << "response", "response", "response" >>

\* C14: every invocation of an event handler, and the start-up, eventually
\* returns, also when the receiver answers no request: every request it
\* awaits settles by the timeout at the latest.
C14_HandlersFinish ==
    \A i \in 0..MaxLiveEvents : (hs[i].pc \notin {"idle", "done"}) ~> (hs[i].pc = "done")

\* C14, its case: the receiver answered no request; the start-up and the
\* handler of a skip update have returned after all their requests timed out
C14_Witness ==
    /\ hs[0].pc = "done"
    /\ hs[0].settled = << "timeout", "timeout", "timeout" >>
    /\ \E i \in EventSlots :
            /\ hs[i].kind = "skip" /\ hs[i].pc = "done"
            /\ hs[i].settled = << "timeout", "timeout" >>

====
